---- MODULE Spec2Model ----
(***************************************************************************)
(* A model of the data-preparation pipeline of object_perception:          *)
(*   src/src/prior_box_manager.py  PriorBoxManager (IoU, encode, assign,   *)
(*                                 decode)                                 *)
(*   src/src/image_generator.py    ImageGenerator (flips, key management,  *)
(*                                 sample selection, the flow generator)   *)
(*                                                                         *)
(* Numbers.  numpy float64 values are modelled exactly: a value is a       *)
(* record [t, n, d, cn, cd] where                                          *)
(*   t = "fin"  the rational n/d (d > 0, lowest terms)                     *)
(*   t = "inf"  +inf (n = 1) or -inf (n = -1)                              *)
(*   t = "nan"  NaN                                                        *)
(*   t = "ln"   (cn/cd) * ln(n/d), with n/d > 0, n/d # 1, cn # 0           *)
(*   t = "sym"  a real number with no such closed form (the model never    *)
(*              compares two of them)                                      *)
(* Rounding is not modelled: arithmetic is that of the reals, extended by  *)
(* IEEE's inf and NaN, which numpy produces silently.                      *)
(***************************************************************************)
EXTENDS Integers, Sequences, FiniteSets, TLC

\* ------------------------------------------------------------------ bounds

\* Normalized coordinates are the multiples k/GridSize, k in 0..GridSize.
GridSize == 2
\* num_classes of the PriorBoxManager (class columns 4 .. 4+NumClasses-1).
NumClasses == 3
\* The largest number of ground-truth boxes handed to assign_boxes.
MaxBoxes == 2
\* The largest number of rows of a matrix handed to _select_samples.
MaxRows == 4
\* The largest negative_positive_ratio.
MaxRatio == 2
\* The largest batch_size.
MaxBatch == 2
\* The shape read_image returns for every image: ImageHeight x ImageWidth x 3.
ImageHeight == 4
ImageWidth == 4

\* ------------------------------------------------------------------ numbers

Abs(x) == IF x < 0 THEN -x ELSE x

Sign(x) == IF x < 0 THEN -1 ELSE IF x = 0 THEN 0 ELSE 1

RECURSIVE GCD(_, _)
GCD(a, b) == IF b = 0 THEN a ELSE GCD(b, a % b)

Mk(t, n, d, cn, cd) == [t |-> t, n |-> n, d |-> d, cn |-> cn, cd |-> cd]

NaN == Mk("nan", 0, 0, 0, 0)

Inf(s) == Mk("inf", s, 0, 0, 0)

Sym == Mk("sym", 0, 0, 0, 0)

\* The rational n/d, d # 0, in lowest terms with a positive denominator.
Lowest(n, d, g) == Mk("fin", (Sign(d) * n) \div g, Abs(d) \div g, 0, 1)

Rat(n, d) == Lowest(n, d, GCD(Abs(n), Abs(d)))

Zero == Mk("fin", 0, 1, 0, 1)

One == Mk("fin", 1, 1, 0, 1)

Half == Mk("fin", 1, 2, 0, 1)

IsFin(a) == a.t = "fin"

IsNaN(a) == a.t = "nan"

\* c * ln(q) for rationals q > 0 and c.
LnOf(q, c) == Mk("ln", q.n, q.d, c.n, c.d)

\* (cn/cd) * ln(n/d) for n/d > 0: a rational 0 when n = d or cn = 0.
LnTerm(n, d, cn, cd) ==
    IF n = d \/ cn = 0 THEN Zero
    ELSE LnOf(Rat(n, d), Rat(cn, cd))

\* The sign of a value that is not NaN (for "ln": of cn/cd * ln(n/d)).
SignOf(a) ==
    CASE a.t = "fin" -> Sign(a.n)
      [] a.t = "inf" -> a.n
      [] a.t = "ln"  -> a.cn * (IF a.n > a.d THEN 1 ELSE -1)
      [] OTHER       -> 0

\* The infinity of sign s, and NaN for s = 0 (0 * inf, 0 / 0).
InfOrNaN(s) == IF s = 0 THEN NaN ELSE Inf(s)

FNeg(a) ==
    CASE a.t = "fin" -> Rat(-a.n, a.d)
      [] a.t = "inf" -> Inf(-a.n)
      [] a.t = "ln"  -> LnTerm(a.n, a.d, -a.cn, a.cd)
      [] OTHER       -> a

FAdd(a, b) ==
    CASE IsNaN(a) \/ IsNaN(b) -> NaN
      [] IsFin(a) /\ IsFin(b) -> Rat(a.n * b.d + b.n * a.d, a.d * b.d)
      [] a.t = "inf" /\ b.t = "inf" -> IF a.n = b.n THEN a ELSE NaN
      [] a.t = "inf" -> a
      [] b.t = "inf" -> b
      [] IsFin(a) /\ a.n = 0 -> b
      [] IsFin(b) /\ b.n = 0 -> a
      [] OTHER -> Sym

FSub(a, b) == FAdd(a, FNeg(b))

FMul(a, b) ==
    CASE IsNaN(a) \/ IsNaN(b) -> NaN
      [] IsFin(a) /\ IsFin(b) -> Rat(a.n * b.n, a.d * b.d)
      [] a.t = "inf" \/ b.t = "inf" -> InfOrNaN(SignOf(a) * SignOf(b))
      [] a.t = "ln" /\ IsFin(b) -> LnTerm(a.n, a.d, a.cn * b.n, a.cd * b.d)
      [] b.t = "ln" /\ IsFin(a) -> LnTerm(b.n, b.d, b.cn * a.n, b.cd * a.d)
      [] IsFin(a) /\ a.n = 0 -> Zero
      [] IsFin(b) /\ b.n = 0 -> Zero
      [] OTHER -> Sym

\* numpy's true division: x/0 is +-inf, 0/0 is NaN, silently (a RuntimeWarning).
FDiv(a, b) ==
    CASE IsNaN(a) \/ IsNaN(b) -> NaN
      [] IsFin(b) /\ b.n = 0 -> InfOrNaN(SignOf(a))
      [] IsFin(a) /\ IsFin(b) -> Rat(a.n * b.d, a.d * b.n)
      [] a.t = "inf" /\ b.t = "inf" -> NaN
      [] a.t = "inf" -> Inf(a.n * SignOf(b))
      [] b.t = "inf" -> Zero
      [] a.t = "ln" /\ IsFin(b) -> LnTerm(a.n, a.d, a.cn * b.d, a.cd * b.n)
      [] IsFin(a) /\ a.n = 0 -> Zero
      [] OTHER -> Sym

\* np.log: log(0) = -inf, log(x < 0) = NaN, silently.
FLn(a) ==
    CASE IsNaN(a) -> NaN
      [] IsFin(a) -> IF a.n > 0 THEN LnTerm(a.n, a.d, 1, 1)
                     ELSE IF a.n = 0 THEN Inf(-1) ELSE NaN
      [] a.t = "inf" -> IF a.n > 0 THEN Inf(1) ELSE NaN
      [] OTHER -> Sym

\* np.exp: exp(ln q) = q; exp of another nonzero number has no closed form here.
FExp(a) ==
    CASE IsNaN(a) -> NaN
      [] IsFin(a) -> IF a.n = 0 THEN One ELSE Sym
      [] a.t = "inf" -> IF a.n > 0 THEN Inf(1) ELSE Zero
      [] a.t = "ln" -> IF a.cn = 1 /\ a.cd = 1 THEN Rat(a.n, a.d)
                       ELSE IF a.cn = -1 /\ a.cd = 1 THEN Rat(a.d, a.n)
                       ELSE Sym
      [] OTHER -> Sym

\* a < b on fin and inf values, and of a logarithm with 0; every comparison
\* with NaN is false.
FLt(a, b) ==
    CASE IsNaN(a) \/ IsNaN(b) -> FALSE
      [] IsFin(a) /\ IsFin(b) -> a.n * b.d < b.n * a.d
      [] a.t = "inf" /\ b.t = "inf" -> a.n < b.n
      [] a.t = "inf" -> a.n < 0
      [] b.t = "inf" -> b.n > 0
      [] IsFin(b) /\ b.n = 0 -> SignOf(a) < 0
      [] IsFin(a) /\ a.n = 0 -> SignOf(b) > 0
      [] OTHER -> FALSE

FGt(a, b) == FLt(b, a)

\* np.maximum / np.minimum: NaN propagates.
FMax2(a, b) ==
    IF IsNaN(a) \/ IsNaN(b) THEN NaN ELSE IF FLt(a, b) THEN b ELSE a

FMin2(a, b) ==
    IF IsNaN(a) \/ IsNaN(b) THEN NaN ELSE IF FLt(b, a) THEN b ELSE a

\* ndarray.argmax over a non-empty sequence: the first NaN if there is one, else
\* the first maximum (1-based here).
ArgMax(s) ==
    IF \E i \in 1..Len(s) : IsNaN(s[i])
    THEN CHOOSE i \in 1..Len(s) :
            IsNaN(s[i]) /\ \A j \in 1..(i - 1) : ~IsNaN(s[j])
    ELSE CHOOSE i \in 1..Len(s) :
            /\ \A j \in 1..Len(s) : ~FLt(s[i], s[j])
            /\ \A j \in 1..(i - 1) : FLt(s[j], s[i])

\* ndarray.max over a non-empty sequence: NaN if any element is NaN.
MaxOf(s) == s[ArgMax(s)]

\* The sequence a function over 1..n denotes, evaluated once (TLC would otherwise
\* re-evaluate the function's body at every application).
AsSeq(f) == f \o <<>>

\* ------------------------------------------------------------------ boxes

\* The box (x_min, y_min, x_max, y_max) with corners on the grid.
Box(x0, y0, x1, y1) ==
    <<Rat(x0, GridSize), Rat(y0, GridSize), Rat(x1, GridSize), Rat(y1, GridSize)>>

\* The one-hot class vector of length NumClasses for class id c (0-based).
OneHot(c) == AsSeq([i \in 1..NumClasses |-> IF i = c + 1 THEN One ELSE Zero])

\* A row of ground_truth_data: [x_min, y_min, x_max, y_max, *one_hot_class].
GtRow(box, c) == box \o OneHot(c)

Coords == 0..GridSize

\* Every box on the grid: valid, zero-area and malformed (max < min) ones.
AllBoxes == {Box(x0, y0, x1, y1) : x0 \in Coords, y0 \in Coords,
                                   x1 \in Coords, y1 \in Coords}

\* The valid boxes: positive width and height, inside [0,1].
ValidBoxes == {b \in AllBoxes : FLt(b[1], b[3]) /\ FLt(b[2], b[4])}

\* Degenerate boxes: zero width, a point, x reversed, both axes reversed.
DegenerateBoxes ==
    { Box(1, 0, 1, GridSize), Box(1, 1, 1, 1),
      Box(GridSize, 0, 0, GridSize), Box(GridSize, GridSize, 0, 0) }

\* The boxes a ground-truth row is drawn from.
GtBoxes == ValidBoxes \cup DegenerateBoxes

\* Ground-truth rows carry an object class (1 .. NumClasses-1).
ObjectClasses == 1..(NumClasses - 1)

RowsOver(boxes) == {GtRow(b, c) : b \in boxes, c \in ObjectClasses}

SeqsUpTo(S, n) == UNION {[1..k -> S] : k \in 0..n}

\* ------------------------------------------------------------------ state

VARIABLES
    \* PriorBoxManager
    prior_boxes,            \* self.prior_boxes: sequence of boxes, never changed
    background_id,          \* self.background_id
    overlap_threshold,      \* self.overlap_threshold
    box_scale_factors,      \* self.box_scale_factors: <<cx, cy, w, h>>
    assigned_prior_boxes,   \* self.assigned_prior_boxes
    \* the last call of a method of the manager or of _select_samples
    call,                   \* [op, arg, done, ret]
    \* ImageGenerator
    negative_positive_ratio,\* self.negative_positive_ratio
    batch_size,             \* self.batch_size
    train_keys,             \* self.train_keys: a list, shuffled in place
    validation_keys,        \* self.validation_keys: a list, shuffled in place
    ground_truth_data,      \* self.ground_truth_data: key -> array of rows
    \* the generators flow(mode) has returned, one per stream
    streams,                \* the streams that exist
    mode,                   \* the argument of flow
    pc,                     \* where the generator is suspended or running
    cursor,                 \* the index of the list iterator of "for key in keys"
    inputs,                 \* the local inputs
    targets,                \* the local targets
    \* history, for the properties
    waiting,                \* a next() call is in progress
    accumulated,            \* inputs and targets as they were before the shuffle
    visited,                \* the keys the current pass has processed
    original_ground_truth   \* ground_truth_data as the generator was given it

mvars == <<prior_boxes, background_id, overlap_threshold, box_scale_factors,
           assigned_prior_boxes, call>>

\* The configuration of the manager, which no method changes.
mconfig == <<prior_boxes, background_id, overlap_threshold, box_scale_factors>>

gconfig == <<negative_positive_ratio, batch_size, streams, mode,
             original_ground_truth>>

gvars == <<negative_positive_ratio, batch_size, train_keys, validation_keys,
           ground_truth_data, streams, mode, pc, cursor, inputs, targets,
           waiting, accumulated, visited, original_ground_truth>>

num_priors == Len(prior_boxes)

\* The width of a row of the assignment matrix: 4 + num_classes + 8.
NumColumns == 4 + NumClasses + 8

\* ------------------------------------------------------------------ IoU

\* _calculate_intersection_over_unions, for one prior (the code is vectorised
\* over the priors; each element is computed as here).
Intersection(prior, g) ==
    LET intersections_x_min == FMax2(prior[1], g[1])
        intersections_y_min == FMax2(prior[2], g[2])
        intersections_x_max == FMin2(prior[3], g[3])
        intersections_y_max == FMin2(prior[4], g[4])
        intersected_widths ==
            FMax2(FSub(intersections_x_max, intersections_x_min), Zero)
        intersected_heights ==
            FMax2(FSub(intersections_y_max, intersections_y_min), Zero)
    IN  FMul(intersected_widths, intersected_heights)

Union(prior, g, intersections) ==
    LET prior_box_areas ==
            FMul(FSub(prior[3], prior[1]), FSub(prior[4], prior[2]))
        ground_truth_area == FMul(FSub(g[3], g[1]), FSub(g[4], g[2]))
    IN  FSub(FAdd(prior_box_areas, ground_truth_area), intersections)

\* intersections / unions (line 41).
IntersectionOverUnion(prior, g, intersections) ==
    FDiv(intersections, Union(prior, g, intersections))

IoU(prior, g) == IntersectionOverUnion(prior, g, Intersection(prior, g))

\* The IoU of one ground-truth box against every prior.
IoUs(g) == AsSeq([p \in 1..num_priors |-> IoU(prior_boxes[p], g)])

\* ------------------------------------------------------------------ encode

\* _encode_box for one assigned prior d and the ground-truth box g.
EncodeBox(d, g, scale) ==
    LET d_center_x == FMul(Half, FAdd(d[1], d[3]))
        d_center_y == FMul(Half, FAdd(d[2], d[4]))
        d_width == FSub(d[3], d[1])
        d_height == FSub(d[4], d[2])
        g_width == FSub(g[3], g[1])
        g_height == FSub(g[4], g[2])
        g_center_x == FMul(Half, FAdd(g[1], g[3]))
        g_center_y == FMul(Half, FAdd(g[2], g[4]))
        g_hat_center_x ==
            FDiv(FSub(g_center_x, d_center_x), FMul(d_width, scale[1]))
        g_hat_center_y ==
            FDiv(FSub(g_center_y, d_center_y), FMul(d_height, scale[2]))
        g_hat_width == FDiv(FLn(FDiv(g_width, d_width)), scale[3])
        g_hat_height == FDiv(FLn(FDiv(g_height, d_height)), scale[4])
    IN  <<g_hat_center_x, g_hat_center_y, g_hat_width, g_hat_height>>

\* ------------------------------------------------------------------ assign

ZeroRow(n) == AsSeq([j \in 1..n |-> Zero])

\* The mask of _assign_boxes_to_object: the priors over the threshold, or, when
\* there is none, the argmax of the IoUs.
AssignMask(ious) ==
    LET over == AsSeq([p \in 1..num_priors |-> FGt(ious[p], overlap_threshold)])
    IN  IF \E p \in 1..num_priors : over[p]
        THEN over
        ELSE [over EXCEPT ![ArgMax(ious)] = TRUE]

\* _assign_boxes_to_object(ground_truth_box, return_iou=True), before ravel():
\* one row <<delta[4], iou>> per prior, zero where the mask is off.
EncodedWith(g, ious, assign_mask) ==
    AsSeq([p \in 1..num_priors |->
        IF assign_mask[p]
        THEN EncodeBox(prior_boxes[p], g, box_scale_factors) \o <<ious[p]>>
        ELSE ZeroRow(5)])

EncodedOver(g, ious) == EncodedWith(g, ious, AssignMask(ious))

AssignBoxesToObject(g) == EncodedOver(g, IoUs(g))

\* What one _assign_boxes_to_object call appends to self.assigned_prior_boxes:
\* self.prior_boxes[assign_mask] (here: the indices of those priors).
MaskedPriors(assign_mask) == {p \in 1..num_priors : assign_mask[p]}

AssignedPriors(g) == MaskedPriors(AssignMask(IoUs(g)))

\* assignments = zeros((N, 4 + C + 8)); assignments[:, 4 + background_id] = 1.0
\* (column j of the code is index j + 1 here).
BackgroundRow ==
    AsSeq([j \in 1..NumColumns |-> IF j = 4 + background_id + 1 THEN One ELSE Zero])

\* best_iou > 0 (line 109).
BestIouMask(best_iou) == FGt(best_iou, Zero)

\* The row of prior p when box w has the best, positive, IoU with it
\* (lines 110-118).
AssignedRow(gt, encoded_boxes, background, p, w) ==
    AsSeq([j \in 1..NumColumns |->
        CASE j <= 4 -> encoded_boxes[w][p][j]
          [] j = 5 -> Zero
          [] j >= 6 /\ j <= 4 + NumClasses -> gt[w][j]
          [] j = 4 + NumClasses + 1 -> One
          [] OTHER -> background[j]])

\* encoded_boxes[:, :, -1] for prior p: its IoU with every box.
IouColumn(encoded_boxes, p) ==
    AsSeq([b \in 1..Len(encoded_boxes) |-> encoded_boxes[b][p][5]])

\* Lines 106-119 for prior p, given the column of its IoUs.
RowOfBest(gt, encoded_boxes, background, p, column) ==
    IF BestIouMask(MaxOf(column))
    THEN AssignedRow(gt, encoded_boxes, background, p, ArgMax(column))
    ELSE background

\* Lines 98-119, given the stacked results of _assign_boxes_to_object.
Assignments(gt, encoded_boxes, background) ==
    AsSeq([p \in 1..num_priors |->
        RowOfBest(gt, encoded_boxes, background, p, IouColumn(encoded_boxes, p))])

\* The list comprehension of lines 103-104.
EncodedBoxes(gt) ==
    AsSeq([b \in 1..Len(gt) |-> AssignBoxesToObject(SubSeq(gt[b], 1, 4))])

\* assign_boxes(ground_truth_data): the N x (4 + C + 8) matrix.
AssignBoxes(gt) ==
    IF Len(gt) = 0
    THEN AsSeq([p \in 1..num_priors |-> BackgroundRow])
    ELSE Assignments(gt, EncodedBoxes(gt), BackgroundRow)

\* self.assigned_prior_boxes after assign_boxes(gt): reset, then one entry per box.
AssignedPriorBoxesAfter(gt) ==
    AsSeq([b \in 1..Len(gt) |-> AssignedPriors(SubSeq(gt[b], 1, 4))])

\* ------------------------------------------------------------------ decode

\* np.clip(x, 0.0, 1.0)
Clip01(a) ==
    CASE IsNaN(a) -> NaN
      [] ~(IsFin(a) \/ a.t = "inf") -> Sym
      [] FLt(a, Zero) -> Zero
      [] FLt(One, a) -> One
      [] OTHER -> a

\* DecodeRow with the width and height decoded under the centre's scale factors.
DecodeRowCentreScales(prior, pred, scale) ==
    LET prior_width == FSub(prior[3], prior[1])
        prior_height == FSub(prior[4], prior[2])
        prior_center_x == FMul(Half, FAdd(prior[3], prior[1]))
        prior_center_y == FMul(Half, FAdd(prior[4], prior[2]))
        decoded_center_x ==
            FAdd(FMul(FMul(pred[1], prior_width), scale[1]), prior_center_x)
        decoded_center_y ==
            FAdd(FMul(FMul(pred[2], prior_height), scale[2]), prior_center_y)
        decoded_width == FMul(FExp(FMul(pred[3], scale[1])), prior_width)
        decoded_height == FMul(FExp(FMul(pred[4], scale[2])), prior_height)
        decoded == <<Clip01(FSub(decoded_center_x, FMul(Half, decoded_width))),
                     Clip01(FSub(decoded_center_y, FMul(Half, decoded_height))),
                     Clip01(FAdd(decoded_center_x, FMul(Half, decoded_width))),
                     Clip01(FAdd(decoded_center_y, FMul(Half, decoded_height)))>>
    IN  IF Len(pred) > 4
        THEN decoded \o SubSeq(pred, 5, Len(pred))
        ELSE decoded

\* decode_boxes for one row: the prior of that row, the predicted row.
DecodeRow(prior, pred, scale) ==
    LET prior_width == FSub(prior[3], prior[1])
        prior_height == FSub(prior[4], prior[2])
        prior_center_x == FMul(Half, FAdd(prior[3], prior[1]))
        prior_center_y == FMul(Half, FAdd(prior[4], prior[2]))
        decoded_center_x ==
            FAdd(FMul(FMul(pred[1], prior_width), scale[1]), prior_center_x)
        decoded_center_y ==
            FAdd(FMul(FMul(pred[2], prior_height), scale[2]), prior_center_y)
        decoded_width == FMul(FExp(FMul(pred[3], scale[3])), prior_width)
        decoded_height == FMul(FExp(FMul(pred[4], scale[4])), prior_height)
        decoded_x_min == FSub(decoded_center_x, FMul(Half, decoded_width))
        decoded_y_min == FSub(decoded_center_y, FMul(Half, decoded_height))
        decoded_x_max == FAdd(decoded_center_x, FMul(Half, decoded_width))
        decoded_y_max == FAdd(decoded_center_y, FMul(Half, decoded_height))
        decoded == <<Clip01(decoded_x_min), Clip01(decoded_y_min),
                     Clip01(decoded_x_max), Clip01(decoded_y_max)>>
    IN  IF Len(pred) > 4
        THEN decoded \o SubSeq(pred, 5, Len(pred))
        ELSE decoded

\* decode_boxes(predicted_boxes): row p is decoded against prior p.
DecodeBoxes(predicted_boxes) ==
    AsSeq([p \in 1..num_priors |->
        DecodeRow(prior_boxes[p], predicted_boxes[p], box_scale_factors)])

\* ------------------------------------------------------------------ the manager's inputs

\* overlap_threshold (the constructor's default, .5).
Thresholds == {Half}

\* box_scale_factors: the constructor's default and the usual SSD variances.
DefaultScale == <<One, One, One, One>>

SsdScale == <<Rat(1, 10), Rat(1, 10), Rat(1, 5), Rat(1, 5)>>

ScaleSets == {DefaultScale, SsdScale}

\* Prior-box sets handed to the constructor: two overlapping priors that leave
\* part of the image uncovered, one prior covering the image, and a set with a
\* zero-area prior.
PriorSets ==
    { <<Box(0, 0, 1, 1), Box(0, 0, GridSize, 1)>>,
      <<Box(0, 0, GridSize, GridSize)>>,
      <<Box(1, 1, 1, 1), Box(0, 0, 1, 1)>> }

NoCall == [op |-> "none", arg |-> <<>>, done |-> TRUE, ret |-> <<>>]

Pending(op, arg) == [op |-> op, arg |-> arg, done |-> FALSE, ret |-> <<>>]

Done(ret) == [call EXCEPT !.done = TRUE, !.ret = ret]

\* No generator has been made by flow.
NoStreams ==
    /\ streams = {}
    /\ mode = <<>>
    /\ pc = <<>>
    /\ cursor = <<>>
    /\ inputs = <<>>
    /\ targets = <<>>
    /\ waiting = <<>>
    /\ accumulated = <<>>
    /\ visited = <<>>

\* An ImageGenerator with no keys and no ground truth.
EmptyStore ==
    /\ train_keys = <<>>
    /\ validation_keys = <<>>
    /\ ground_truth_data = <<>>
    /\ original_ground_truth = <<>>

\* No ImageGenerator is used: one with the defaults, no keys, no stream.
NoGenerator ==
    /\ negative_positive_ratio = 1
    /\ batch_size = 1
    /\ EmptyStore
    /\ NoStreams

\* ------------------------------------------------------------------ Spec: assign_boxes

\* A PriorBoxManager as constructed (lines 4-12), about to be called with
\* assign_boxes(call.arg).
Init ==
    /\ prior_boxes \in PriorSets
    /\ background_id \in 0..(NumClasses - 1)
    /\ overlap_threshold \in Thresholds
    /\ box_scale_factors = DefaultScale
    /\ assigned_prior_boxes = <<>>
    /\ call \in {Pending("assign_boxes", gt) :
                    gt \in SeqsUpTo(RowsOver(GtBoxes), MaxBoxes)}
    /\ NoGenerator

\* assign_boxes(ground_truth_data), lines 97-120.
AssignBoxesCall ==
    /\ call.op = "assign_boxes"
    /\ ~call.done
    /\ call' = Done(AssignBoxes(call.arg))
    /\ assigned_prior_boxes' = AssignedPriorBoxesAfter(call.arg)
    /\ UNCHANGED <<mconfig, gvars>>

Next == AssignBoxesCall

vars == <<mvars, gvars>>

Spec == Init /\ [][Next]_vars

\* ------------------------------------------------------------------ claims on assign_boxes

CallDone(op) == call.op = op /\ call.done

IsValidBox(b) == FLt(b[1], b[3]) /\ FLt(b[2], b[4])

\* Well-formed input of assign_boxes: valid ground-truth boxes, valid priors.
WellFormed(gt) ==
    /\ \A b \in 1..Len(gt) : IsValidBox(SubSeq(gt[b], 1, 4))
    /\ \A p \in 1..num_priors : IsValidBox(prior_boxes[p])

\* Box b of gt selects prior p (over the threshold, or by the fallback).
Selects(gt, b, p) == AssignMask(IoUs(SubSeq(gt[b], 1, 4)))[p]

\* Row p of the matrix is assigned to the ground-truth row g: background flag 0,
\* the delta encoded from g against prior p, the class columns of g.
Carries(row, p, g) ==
    /\ row[5] = Zero
    /\ SubSeq(row, 1, 4) = EncodeBox(prior_boxes[p], SubSeq(g, 1, 4), box_scale_factors)
    /\ SubSeq(row, 6, 4 + NumClasses) = SubSeq(g, 6, 4 + NumClasses)

\* C1 (assignment completeness): after assign_boxes(gt) with at least one box and
\* one prior, every ground-truth box has a prior whose row is assigned to it.
\* Stated here for well-formed input and background_id = 0 only.
C1_AssignmentCompleteness ==
    (/\ CallDone("assign_boxes")
     /\ Len(call.arg) >= 1
     /\ num_priors >= 1
     /\ WellFormed(call.arg)
     /\ background_id = 0)
    => \A b \in 1..Len(call.arg) :
          \E p \in 1..num_priors : Carries(call.ret[p], p, call.arg[b])

\* C2 (conflict resolution): after assign_boxes(gt), the row of every prior that
\* two or more boxes selected carries the delta and the class of one selecting
\* box whose IoU for that prior is the highest among the selecting boxes.
\* Stated here for well-formed input and background_id = 0 only.
C2_ConflictResolution ==
    (/\ CallDone("assign_boxes")
     /\ WellFormed(call.arg)
     /\ background_id = 0)
    => \A p \in 1..num_priors :
          LET gt == call.arg
              sel == {b \in 1..Len(gt) : Selects(gt, b, p)}
              iou(b) == IoU(prior_boxes[p], SubSeq(gt[b], 1, 4))
          IN  Cardinality(sel) >= 2
              => \E w \in sel :
                    /\ \A b \in sel : ~FLt(iou(w), iou(b))
                    /\ Carries(call.ret[p], p, gt[w])

\* The same where a selecting box has a positive IoU for the prior.
ConflictResolutionPositiveIoU ==
    (/\ CallDone("assign_boxes")
     /\ WellFormed(call.arg)
     /\ background_id = 0)
    => \A p \in 1..num_priors :
          LET gt == call.arg
              sel == {b \in 1..Len(gt) : Selects(gt, b, p)}
              iou(b) == IoU(prior_boxes[p], SubSeq(gt[b], 1, 4))
          IN  (Cardinality(sel) >= 2 /\ \E b \in sel : FGt(iou(b), Zero))
              => \E w \in sel :
                    /\ \A b \in sel : ~FLt(iou(w), iou(b))
                    /\ Carries(call.ret[p], p, gt[w])

UnmatchedForm(row) ==
    /\ \A j \in 1..4 : row[j] = Zero
    /\ row[5] = One
    /\ \A j \in 6..(4 + NumClasses) : row[j] = Zero
    /\ row[4 + NumClasses + 1] = Zero

MatchedForm(row, gt) ==
    /\ row[5] = Zero
    /\ \E b \in 1..Len(gt) :
          SubSeq(row, 5, 4 + NumClasses) = SubSeq(gt[b], 5, 4 + NumClasses)
    /\ row[4 + NumClasses + 1] = One

\* C3 (row layout): the result of assign_boxes has N rows of 4 + num_classes + 8
\* columns, every row is in the unmatched or in the matched form, and with no
\* ground-truth box every row is in the unmatched form, for every background_id.
C3_RowLayout ==
    CallDone("assign_boxes")
    => /\ Len(call.ret) = num_priors
       /\ \A p \in 1..num_priors :
            /\ Len(call.ret[p]) = 4 + NumClasses + 8
            /\ UnmatchedForm(call.ret[p]) \/ MatchedForm(call.ret[p], call.arg)
            /\ Len(call.arg) = 0 => UnmatchedForm(call.ret[p])

\* The same layout for background_id = 0 (the constructor's default).
RowLayoutDefaultBackground == background_id = 0 => C3_RowLayout

IsZeroArea(b) == b[1] = b[3] \/ b[2] = b[4]

\* C7 (degenerate boxes): in assign_boxes no IoU is a division by a zero union,
\* and a zero-area ground-truth box has IoU 0 against every prior, so that its
\* mask is the single prior the fallback picks.
C7_DegenerateIoU ==
    CallDone("assign_boxes")
    => \A b \in 1..Len(call.arg) :
          LET g == SubSeq(call.arg[b], 1, 4)
          IN  /\ \A p \in 1..num_priors :
                    Union(prior_boxes[p], g, Intersection(prior_boxes[p], g)) # Zero
              /\ IsZeroArea(g)
                 => /\ \A p \in 1..num_priors : IoU(prior_boxes[p], g) = Zero
                    /\ AssignedPriors(g) = {ArgMax(IoUs(g))}

\* ------------------------------------------------------------------ CodecSpec: _encode_box, decode_boxes

\* Prior sets of one or two valid priors.
CodecPriorSets ==
    {<<d>> : d \in ValidBoxes}
    \cup {<<Box(0, 0, GridSize, GridSize), d>> : d \in ValidBoxes}

\* Columns after the first 4 of a predicted row (class scores), or none.
TrailingColumns == {<<>>, <<Half, One>>}

\* A manager with valid priors, about to encode the valid box arg.g against
\* prior arg.p; arg.extra are the trailing columns of the rows to decode.
CodecInit ==
    /\ prior_boxes \in CodecPriorSets
    /\ background_id = 0
    /\ overlap_threshold = Half
    /\ box_scale_factors \in ScaleSets
    /\ assigned_prior_boxes = <<>>
    /\ call \in {Pending("encode_box", [p |-> p, g |-> g, extra |-> e]) :
                    p \in 1..2, g \in ValidBoxes, e \in TrailingColumns}
    /\ call.arg.p <= num_priors
    /\ NoGenerator

\* _encode_box(prior_boxes[[p]], g), lines 44-80.
EncodeBoxCall ==
    /\ call.op = "encode_box"
    /\ ~call.done
    /\ call' = Done(EncodeBox(prior_boxes[call.arg.p], call.arg.g, box_scale_factors))
    /\ UNCHANGED <<mconfig, assigned_prior_boxes, gvars>>

\* The input of decode_boxes that holds the delta in row p; the other rows hold
\* zero deltas; every row ends with the trailing columns.
PredictedWith(p, delta, extra) ==
    AsSeq([q \in 1..num_priors |-> (IF q = p THEN delta ELSE ZeroRow(4)) \o extra])

\* decode_boxes(predicted_boxes), lines 122-167, on the delta just encoded.
DecodeBoxesCall ==
    /\ call.op = "encode_box"
    /\ call.done
    /\ LET predicted == PredictedWith(call.arg.p, call.ret, call.arg.extra)
       IN  call' = [op |-> "decode_boxes",
                    arg |-> [p |-> call.arg.p, g |-> call.arg.g,
                             predicted |-> predicted],
                    done |-> TRUE,
                    ret |-> DecodeBoxes(predicted)]
    /\ UNCHANGED <<mconfig, assigned_prior_boxes, gvars>>

CodecNext == EncodeBoxCall \/ DecodeBoxesCall

CodecSpec == CodecInit /\ [][CodecNext]_vars

\* C10 (encode/decode round trip): decoding the delta _encode_box produced for a
\* valid prior and a valid ground-truth box, in that prior's row, gives back the
\* box, and the columns after the first 4 of every row come back unchanged.
C10_RoundTrip ==
    CallDone("decode_boxes")
    => /\ SubSeq(call.ret[call.arg.p], 1, 4) = call.arg.g
       /\ \A q \in 1..num_priors :
            /\ Len(call.ret[q]) = Len(call.arg.predicted[q])
            /\ SubSeq(call.ret[q], 5, Len(call.ret[q]))
                  = SubSeq(call.arg.predicted[q], 5, Len(call.arg.predicted[q]))

\* A round trip through the second prior with scale factors other than 1, a box
\* that differs from the prior in centre and size, and trailing columns.
C10_Witness ==
    /\ CallDone("decode_boxes")
    /\ call.arg.p = 2
    /\ box_scale_factors # DefaultScale
    /\ Len(call.arg.predicted[2]) > 4
    /\ call.arg.predicted[2][1] # Zero
    /\ call.arg.predicted[2][3].t = "ln"
    /\ call.arg.predicted[2][4].t = "ln"

\* ------------------------------------------------------------------ ImageGenerator: pure parts

Min(a, b) == IF a < b THEN a ELSE b

Max(a, b) == IF a < b THEN b ELSE a

\* The permutations of 0..n-1 that np.random.permutation(n) returns (1-based).
Perms(n) == {f \in [1..n -> 1..n] : \A i, j \in 1..n : f[i] = f[j] => i = j}

\* The index a Python slice bound i denotes on an axis of length n.
SliceIndex(i, n) == IF i < 0 THEN Max(i + n, 0) ELSE Min(i, n)

\* len(a[lo:hi]) for len(a) = n.
SliceLen(lo, hi, n) == Max(SliceIndex(hi, n) - SliceIndex(lo, n), 0)

\* horizontal_flip's box_corners[:, [0, 2]] = 1 - box_corners[:, [2, 0]].
HorizontalFlipBoxes(box_corners) ==
    AsSeq([i \in 1..Len(box_corners) |->
        [box_corners[i] EXCEPT ![1] = FSub(One, box_corners[i][3]),
                               ![3] = FSub(One, box_corners[i][1])]])

\* vertical_flip's box_corners[:, [1, 3]] = 1 - box_corners[:, [3, 1]].
VerticalFlipBoxes(box_corners) ==
    AsSeq([i \in 1..Len(box_corners) |->
        [box_corners[i] EXCEPT ![2] = FSub(One, box_corners[i][4]),
                               ![4] = FSub(One, box_corners[i][2])]])

\* transform(image_array, box_corners), as far as the boxes go: h and v say
\* whether np.random.random() fell under the flip probabilities (both are .5 by
\* default, so both flips are tried).
Transform(box_corners, h, v) ==
    LET after_h == IF h THEN HorizontalFlipBoxes(box_corners) ELSE box_corners
    IN  IF v THEN VerticalFlipBoxes(after_h) ELSE after_h

\* _denormalize_box(box_coordinates, (height, width)).
DenormalizeBox(box_coordinates, height, width) ==
    AsSeq([i \in 1..Len(box_coordinates) |->
        [box_coordinates[i] EXCEPT
            ![1] = FMul(box_coordinates[i][1], Rat(width, 1)),
            ![2] = FMul(box_coordinates[i][2], Rat(height, 1)),
            ![3] = FMul(box_coordinates[i][3], Rat(width, 1)),
            ![4] = FMul(box_coordinates[i][4], Rat(height, 1))]])

\* num_negative_boxes with the cap taken from the background rows.
NumNegativeBoxesOfBackground(num_assigned_boxes, num_background_boxes) ==
    negative_positive_ratio * num_background_boxes

\* num_negative_boxes = self.negative_positive_ratio * num_assigned_boxes.
NumNegativeBoxes(num_assigned_boxes, num_background_boxes) ==
    negative_positive_ratio * num_assigned_boxes

\* The indices i with mask(i), in increasing order.
RECURSIVE IndicesFrom(_, _, _)
IndicesFrom(column, want_background, i) ==
    IF i > Len(column) THEN <<>>
    ELSE (IF (column[i] = One) = want_background THEN <<i>> ELSE <<>>)
         \o IndicesFrom(column, want_background, i + 1)

\* _select_samples(assigned_data) with random_args the permutation drawn: the
\* rows of object_data and of background_data, as indices into assigned_data.
SelectSamples(assigned_data, random_args) ==
    LET column == AsSeq([i \in 1..Len(assigned_data) |-> assigned_data[i][5]])
        object_data == IndicesFrom(column, FALSE, 1)
        background_data == IndicesFrom(column, TRUE, 1)
        num_assigned_boxes == Len(object_data)
        num_background_boxes == Len(background_data)
        num_negative_boxes == NumNegativeBoxes(num_assigned_boxes, num_background_boxes)
        stop == SliceLen(0, num_negative_boxes, num_background_boxes)
    IN  [object |-> object_data,
         background |-> AsSeq([i \in 1..stop |-> background_data[random_args[i]]])]

\* The number of background rows of a matrix.
NumBackground(assigned_data) ==
    Cardinality({i \in 1..Len(assigned_data) : assigned_data[i][5] = One})

\* ln(k) in millionths, for the integers a grid ratio is made of.
LnMicro(k) ==
    CASE k = 1 -> 0
      [] k = 2 -> 693147
      [] k = 3 -> 1098612
      [] k = 4 -> 1386294
      [] k = 5 -> 1609438
      [] k = 6 -> 1791759

\* x \div y rounded toward zero.
TruncDiv(x, y) == Sign(x) * Sign(y) * (Abs(x) \div Abs(y))

\* Whether Python's int(a) returns (it raises on NaN and on inf).
CanInt(a) == a.t \in {"fin", "ln"}

\* Python's int(a): truncation toward zero.
IntOf(a) ==
    IF a.t = "fin" THEN TruncDiv(a.n, a.d)
    ELSE TruncDiv(a.cn * (LnMicro(a.n) - LnMicro(a.d)), a.cd * 1000000)

\* _crop_bounding_box: the shape of image_array[y_min:y_max, x_min:x_max].
CropShape(box_data, height, width) ==
    <<SliceLen(IntOf(box_data[2]), IntOf(box_data[4]), height),
      SliceLen(IntOf(box_data[1]), IntOf(box_data[3]), width)>>

\* _crop_bounding_boxes(image_array, assigned_data) for the image of key: the
\* (image, classes) pairs of the selected rows whose crop is not empty. A pair
\* keeps the key and the row it was made from.
RECURSIVE CropsOf(_, _, _, _)
CropsOf(key, assigned_data, data, i) ==
    IF i > Len(data) THEN <<>>
    ELSE LET object_data == assigned_data[data[i]]
             shape == CropShape(object_data, ImageHeight, ImageWidth)
         IN  (IF shape[1] = 0 \/ shape[2] = 0
              THEN <<>>
              ELSE << [image |-> [key |-> key, row |-> data[i], shape |-> shape],
                       classes |-> [key |-> key, row |-> data[i],
                                    value |-> SubSeq(object_data, 5, NumColumns)]] >>)
             \o CropsOf(key, assigned_data, data, i + 1)

CropBoundingBoxes(key, assigned_data, random_args) ==
    LET samples == SelectSamples(assigned_data, random_args)
    IN  CropsOf(key, assigned_data, samples.object \o samples.background, 1)

\* Whether _crop_bounding_boxes raises: int() of a NaN or an inf coordinate.
CropRaises(assigned_data, random_args) ==
    LET samples == SelectSamples(assigned_data, random_args)
        data == samples.object \o samples.background
    IN  \E i \in 1..Len(data) : \E j \in 1..4 : ~CanInt(assigned_data[data[i]][j])

\* _shuffle_together with only array_1 permuted.
ShuffleFirstOnly(array_1, array_2, random_args) ==
    <<AsSeq([i \in 1..Len(array_1) |-> array_1[random_args[i]]]), array_2>>

\* _shuffle_together(array_1, array_2) with random_args the permutation drawn.
ShuffleTogether(array_1, array_2, random_args) ==
    <<AsSeq([i \in 1..Len(array_1) |-> array_1[random_args[i]]]),
      AsSeq([i \in 1..Len(array_2) |-> array_2[random_args[i]]])>>

\* ------------------------------------------------------------------ SampleSpec: _select_samples

\* A matched row of class c with a zero delta.
ObjectRow(c) ==
    AsSeq([j \in 1..NumColumns |->
        IF j = 5 + c \/ j = 4 + NumClasses + 1 THEN One ELSE Zero])

\* An ImageGenerator with no stream, about to select the samples of call.arg.
SampleInit ==
    /\ prior_boxes \in PriorSets
    /\ background_id = 0
    /\ overlap_threshold = Half
    /\ box_scale_factors = DefaultScale
    /\ assigned_prior_boxes = <<>>
    /\ call \in {Pending("select_samples", a) :
                    a \in SeqsUpTo({BackgroundRow} \cup {ObjectRow(c) : c \in ObjectClasses},
                                   MaxRows)}
    /\ negative_positive_ratio \in 0..MaxRatio
    /\ batch_size = 1
    /\ EmptyStore
    /\ NoStreams

\* _select_samples(assigned_data), lines 131-143.
SelectSamplesCall ==
    /\ call.op = "select_samples"
    /\ ~call.done
    /\ \E random_args \in Perms(NumBackground(call.arg)) :
          call' = Done(SelectSamples(call.arg, random_args))
    /\ UNCHANGED <<mconfig, assigned_prior_boxes, gvars>>

SampleNext == SelectSamplesCall

SampleSpec == SampleInit /\ [][SampleNext]_vars

Range(f) == {f[i] : i \in 1..Len(f)}

\* C9 (batch balance): the rows _select_samples returns are all the foreground
\* rows (flag # 1), each once, and at most ratio * num_foreground background
\* rows, each at most once; with no foreground row, no background row.
C9_BatchBalance ==
    CallDone("select_samples")
    => LET fg == {i \in 1..Len(call.arg) : call.arg[i][5] # One}
           bg == {i \in 1..Len(call.arg) : call.arg[i][5] = One}
           object == call.ret.object
           background == call.ret.background
       IN  /\ Range(object) = fg
           /\ Len(object) = Cardinality(fg)
           /\ Range(background) \subseteq bg
           /\ Len(background) = Cardinality(Range(background))
           /\ Len(background) <= negative_positive_ratio * Cardinality(fg)
           /\ fg = {} => background = <<>>

\* The cap binds: more background rows than ratio * num_foreground >= 2.
C9_Witness ==
    /\ CallDone("select_samples")
    /\ Len(call.ret.object) >= 1
    /\ Len(call.ret.background) >= 2
    /\ Len(call.ret.background) = negative_positive_ratio * Len(call.ret.object)
    /\ NumBackground(call.arg) > Len(call.ret.background)

\* ------------------------------------------------------------------ FlowSpec: flow(mode)

\* The mode strings flow is called with: the three the code tests for, and the
\* spelling "validation", which it does not.
Modes == {"train", "val", "demo", "validation"}

\* The priors of the generator's box_manager.
FlowPriors == <<Box(1, 1, GridSize, GridSize), Box(0, 0, 1, 1)>>

TrainKeys == <<"a", "b">>

ValidationKeys == <<"c", "d">>

\* ground_truth_data: one box per image. A box over the whole image gives one
\* crop (of the first prior); the box of "d" gives none, and is not symmetric.
GroundTruthStore ==
    [k \in {"a", "b", "c", "d"} |->
        CASE k = "a" -> <<GtRow(Box(0, 0, GridSize, GridSize), 1)>>
          [] k = "b" -> <<GtRow(Box(0, 0, GridSize, GridSize), 2)>>
          [] k = "c" -> <<GtRow(Box(0, 0, GridSize, GridSize), 1)>>
          [] k = "d" -> <<GtRow(Box(1, 0, GridSize, 1), 2)>>]

NoBatch == [inputs |-> <<>>, targets |-> <<>>]

\* An ImageGenerator as constructed (lines 12-49) and the generators of `ss`,
\* each as flow(mode) returns it: no line of its body has run.
FlowInitOf(ss) ==
    /\ prior_boxes = FlowPriors
    /\ background_id = 0
    /\ overlap_threshold = Half
    /\ box_scale_factors = SsdScale
    /\ assigned_prior_boxes = <<>>
    /\ call = NoCall
    /\ negative_positive_ratio = 1
    /\ batch_size \in 1..MaxBatch
    /\ train_keys = TrainKeys
    /\ validation_keys = ValidationKeys
    /\ ground_truth_data = GroundTruthStore
    /\ original_ground_truth = GroundTruthStore
    /\ streams = ss
    /\ mode \in [ss -> Modes]
    /\ pc = [s \in ss |-> "new"]
    /\ cursor = [s \in ss |-> 0]
    /\ inputs = [s \in ss |-> <<>>]
    /\ targets = [s \in ss |-> <<>>]
    /\ waiting = [s \in ss |-> FALSE]
    /\ accumulated = [s \in ss |-> NoBatch]
    /\ visited = [s \in ss |-> <<>>]

FlowInit == FlowInitOf({1})

\* The list `keys` of stream s is bound to: _mangage_keys returns the list
\* object itself, not a copy.
KeysOf(s) == IF mode[s] = "train" THEN train_keys ELSE validation_keys

\* The generator is suspended at a yield.
Yielded(s) == pc[s] \in {"yield1", "yield2"}

\* next() has entered the body of generator s and has not returned.
Running(s) == pc[s] \in {"pass", "for"}

\* The consumer calls next(): the generator starts, or resumes after the yield it
\* is suspended at. There is one thread: no next() is made while another runs.
\* The test of line 205 fails after the yield of line 204 (the
\* mode is not "demo" there), so that either yield is followed by the reset of
\* lines 207-208 and the next iteration of the for loop.
Request(s) ==
    /\ pc[s] \in {"new", "yield1", "yield2"}
    /\ \A t \in streams : ~Running(t)
    /\ IF pc[s] = "new"
       THEN /\ pc' = [pc EXCEPT ![s] = "pass"]
            /\ waiting' = [waiting EXCEPT ![s] = TRUE]
            /\ UNCHANGED <<inputs, targets, accumulated>>
       ELSE /\ pc' = [pc EXCEPT ![s] = "for"]
            /\ waiting' = [waiting EXCEPT ![s] = TRUE]
            /\ inputs' = [inputs EXCEPT ![s] = <<>>]
            /\ targets' = [targets EXCEPT ![s] = <<>>]
            /\ accumulated' = [accumulated EXCEPT ![s] = NoBatch]
    /\ UNCHANGED <<mvars, negative_positive_ratio, batch_size, train_keys,
                   validation_keys, ground_truth_data, streams, mode, cursor,
                   visited, original_ground_truth>>

\* A list as random.shuffle may leave it.
Shuffles(list) ==
    {AsSeq([i \in 1..Len(list) |-> list[f[i]]]) : f \in Perms(Len(list))}

\* The top of the while loop, lines 178-181: _mangage_keys shuffles the list of
\* the mode in place and returns it; for another mode string `keys` is unbound
\* and `return keys` raises UnboundLocalError out of the generator.
StartPass(s) ==
    /\ pc[s] = "pass"
    /\ IF mode[s] = "train"
       THEN /\ train_keys' \in Shuffles(train_keys)
            /\ UNCHANGED validation_keys
       ELSE IF mode[s] \in {"val", "demo"}
       THEN /\ validation_keys' \in Shuffles(validation_keys)
            /\ UNCHANGED train_keys
       ELSE UNCHANGED <<train_keys, validation_keys>>
    /\ IF mode[s] \in {"train", "val", "demo"}
       THEN /\ pc' = [pc EXCEPT ![s] = "for"]
            /\ UNCHANGED waiting
       ELSE /\ pc' = [pc EXCEPT ![s] = "raised"]
            /\ waiting' = [waiting EXCEPT ![s] = FALSE]
    /\ inputs' = [inputs EXCEPT ![s] = <<>>]
    /\ targets' = [targets EXCEPT ![s] = <<>>]
    /\ cursor' = [cursor EXCEPT ![s] = 0]
    /\ visited' = [visited EXCEPT ![s] = <<>>]
    /\ UNCHANGED <<mvars, negative_positive_ratio, batch_size, ground_truth_data,
                   streams, mode, accumulated, original_ground_truth>>

\* The images and the classes of a sequence of (image, classes) pairs.
ImagesOf(pairs) == AsSeq([i \in 1..Len(pairs) |-> pairs[i].image])

ClassesOf(pairs) == AsSeq([i \in 1..Len(pairs) |-> pairs[i].classes])

\* The yield a full batch is handed out at: line 204 in train and val mode,
\* line 206 in demo mode.
YieldAfterShuffle(m) == IF m = "demo" THEN "yield2" ELSE "yield1"

\* Lines 195-208 after the crops of a key are appended: when batch_size is
\* reached the accumulators are shuffled and yielded, else the loop goes on.
Accumulate(s, new_inputs, new_targets) ==
    IF Len(new_targets) >= batch_size
    THEN \E shuffle_args \in Perms(Len(new_inputs)) :
         \E shuffled \in {ShuffleTogether(new_inputs, new_targets, shuffle_args)} :
            /\ inputs' = [inputs EXCEPT ![s] = shuffled[1]]
            /\ targets' = [targets EXCEPT ![s] = shuffled[2]]
            /\ accumulated' = [accumulated EXCEPT ![s] =
                   [inputs |-> new_inputs, targets |-> new_targets]]
            /\ pc' = [pc EXCEPT ![s] = YieldAfterShuffle(mode[s])]
            /\ waiting' = [waiting EXCEPT ![s] = FALSE]
    ELSE /\ inputs' = [inputs EXCEPT ![s] = new_inputs]
         /\ targets' = [targets EXCEPT ![s] = new_targets]
         /\ UNCHANGED <<pc, waiting, accumulated>>

\* Lines 193-208 for the denormalised matrix of a key: the crops are taken
\* (int() of a NaN or an inf raises ValueError out of the generator) and appended.
CropAndAccumulate(s, key, assigned_data) ==
    \E random_args \in Perms(NumBackground(assigned_data)) :
        IF CropRaises(assigned_data, random_args)
        THEN /\ pc' = [pc EXCEPT ![s] = "raised"]
             /\ waiting' = [waiting EXCEPT ![s] = FALSE]
             /\ UNCHANGED <<inputs, targets, accumulated>>
        ELSE \E pairs \in {CropBoundingBoxes(key, assigned_data, random_args)} :
                Accumulate(s, inputs[s] \o ImagesOf(pairs),
                              targets[s] \o ClassesOf(pairs))

\* Lines 182-192 for a key: the boxes are flipped in place in train and demo
\* mode, the store keeps the flipped array, and the boxes are assigned.
TransformAndAssign(s, key, box_data) ==
    /\ ground_truth_data' = [ground_truth_data EXCEPT ![key] = box_data]
    /\ assigned_prior_boxes' = AssignedPriorBoxesAfter(box_data)
    /\ \E assigned_data \in
            {DenormalizeBox(AssignBoxes(box_data), ImageHeight, ImageWidth)} :
          CropAndAccumulate(s, key, assigned_data)

\* The flips transform may draw: none outside train and demo mode.
FlipChoices(m) == IF m = "train" \/ m = "demo" THEN BOOLEAN ELSE {FALSE}

\* One iteration of the for loop, lines 181-208, up to the first yield: the key
\* under the list iterator is processed.
ProcessKey(s) ==
    /\ pc[s] = "for"
    /\ cursor[s] < Len(KeysOf(s))
    /\ \E key \in {KeysOf(s)[cursor[s] + 1]} :
       \E h \in FlipChoices(mode[s]), v \in FlipChoices(mode[s]) :
       \E box_data \in {Transform(ground_truth_data[key], h, v)} :
          /\ TransformAndAssign(s, key, box_data)
          /\ visited' = [visited EXCEPT ![s] = Append(visited[s], key)]
    /\ cursor' = [cursor EXCEPT ![s] = cursor[s] + 1]
    /\ UNCHANGED <<mconfig, call, negative_positive_ratio, batch_size, train_keys,
                   validation_keys, streams, mode, original_ground_truth>>

\* The list iterator is exhausted: the for loop ends and the while loop goes
\* round (line 177).
EndPass(s) ==
    /\ pc[s] = "for"
    /\ cursor[s] >= Len(KeysOf(s))
    /\ pc' = [pc EXCEPT ![s] = "pass"]
    /\ UNCHANGED <<mvars, negative_positive_ratio, batch_size, train_keys,
                   validation_keys, ground_truth_data, streams, mode, cursor,
                   inputs, targets, waiting, accumulated, visited,
                   original_ground_truth>>

FlowNext ==
    \/ \E s \in streams : Request(s)
    \/ \E s \in streams : StartPass(s)
    \/ \E s \in streams : ProcessKey(s)
    \/ \E s \in streams : EndPass(s)

FlowSpec == FlowInit /\ [][FlowNext]_vars

\* The positions of a generator.
Positions == {"new", "pass", "for", "yield1", "yield2", "raised"}

\* A generator that next() has entered moves: its position or its list iterator
\* changes. Of the steps of FlowNext these are the steps StartPass, ProcessKey
\* and EndPass.
Runs ==
    \E s \in streams :
        /\ Running(s)
        /\ pc' \in [streams -> Positions]
        /\ cursor' \in [streams -> 0..(Len(train_keys) + Len(validation_keys))]
        /\ (pc'[s] # pc[s] \/ cursor'[s] # cursor[s])

\* The body of a generator runs on, once next() has entered it, until it yields
\* or raises; a consumer may stop asking.
FairFlowSpec == FlowSpec /\ WF_<<pc, cursor>>(Runs)

\* Two generators made by two flow calls on the same ImageGenerator.
DuoInit == FlowInitOf({1, 2})

DuoSpec == DuoInit /\ [][FlowNext]_vars

\* ------------------------------------------------------------------ properties of flow

\* The stream of FlowSpec.
FlowStreams == {1}

\* C4 (infinite lazy sequence): every request for the next batch is eventually
\* answered with a batch, whatever the mode, the batch size and the number of
\* crops the keys give.
C4_EveryRequestAnswered == \A s \in FlowStreams : waiting[s] ~> Yielded(s)

\* The same for the mode strings the code tests for.
RequestAnsweredKnownMode ==
    \A s \in FlowStreams :
        (waiting[s] /\ mode[s] \in {"train", "val", "demo"}) ~> Yielded(s)

\* The same when one crop is a batch.
RequestAnsweredBatchOfOne ==
    \A s \in FlowStreams :
        (waiting[s] /\ mode[s] \in {"train", "val", "demo"} /\ batch_size = 1)
            ~> Yielded(s)

\* C4, first half: flow never terminates on its own, for any mode string.
NeverTerminates == \A s \in streams : pc[s] # "raised"

\* The same for the mode strings the code tests for.
NeverTerminatesKnownMode ==
    \A s \in streams : mode[s] \in {"train", "val", "demo"} => pc[s] # "raised"

\* C5 (store unchanged): the boxes stored for every key equal their initial
\* values after any sequence of flow iterations.
C5_StoreUnchanged == ground_truth_data = original_ground_truth

\* In val mode alone the store is read only.
StoreUnchangedInVal ==
    (\A s \in streams : mode[s] \in {"val", "validation"})
    => ground_truth_data = original_ground_truth

\* The for loop of stream s has come to the end of its list.
PassComplete(s) == pc[s] = "for" /\ cursor[s] >= Len(KeysOf(s))

\* The sequence visited holds every element of keys exactly once.
EachOnce(visited_keys, keys) ==
    /\ Len(visited_keys) = Len(keys)
    /\ \A k \in Range(keys) : \E i \in 1..Len(visited_keys) : visited_keys[i] = k

\* C6 (independent streams): every full pass of each of two streams pulled in
\* any interleaving visits every key of its key set exactly once.
C6_FullPassVisitsEachKeyOnce ==
    \A s \in streams : PassComplete(s) => EachOnce(visited[s], KeysOf(s))

\* inputs and targets of s are accumulated[s] under one permutation.
SamePermutation(s) ==
    \E f \in Perms(Len(accumulated[s].inputs)) :
        /\ Len(inputs[s]) = Len(accumulated[s].inputs)
        /\ Len(targets[s]) = Len(accumulated[s].targets)
        /\ \A i \in 1..Len(inputs[s]) :
              /\ inputs[s][i] = accumulated[s].inputs[f[i]]
              /\ targets[s][i] = accumulated[s].targets[f[i]]

\* Every crop of s stands at the index of the target of its own row.
OwnTargets(s) ==
    \A i \in 1..Len(inputs[s]) :
        /\ inputs[s][i].key = targets[s][i].key
        /\ inputs[s][i].row = targets[s][i].row

AccumulatorsInStep(s) ==
    /\ Len(inputs[s]) = Len(targets[s])
    /\ OwnTargets(s)
    /\ pc[s] = "for" => Len(targets[s]) < batch_size
    /\ Yielded(s) => Len(targets[s]) >= batch_size /\ SamePermutation(s)

\* A step of stream s into a yield processes a key; the step out of a yield
\* leaves both accumulators empty and leads to no second yield.
EmissionSteps(s) ==
    /\ (~Yielded(s) /\ Yielded(s)') => (pc[s] = "for" /\ cursor'[s] = cursor[s] + 1)
    /\ (Yielded(s) /\ pc'[s] # pc[s])
       => (pc'[s] = "for" /\ inputs'[s] = <<>> /\ targets'[s] = <<>>)
    /\ (pc[s] = "for" /\ cursor'[s] = cursor[s] + 1 /\ pc'[s] = "for")
       => Len(targets'[s]) < batch_size

Emptied(s) ==
    \/ inputs[s] # <<>> /\ inputs'[s] = <<>>
    \/ targets[s] # <<>> /\ targets'[s] = <<>>

\* C11 (no sample lost): the accumulators are emptied only by an emission, that
\* is by the step that follows a yield of their contents; the pairs left over
\* below batch_size at the end of a pass are still there in the next pass.
C11_EmptiedOnlyByEmission ==
    [][\A s \in streams : Emptied(s) => Yielded(s)]_vars

\* C11, the other half: the pairs in the accumulators are eventually emitted.
AccumulatedPairsEmitted ==
    \A s \in FlowStreams : (inputs[s] # <<>>) ~> Yielded(s)

\* The same when one crop is a batch: every pair is emitted by the step that
\* adds it.
NothingLeftOverBatchOfOne ==
    batch_size = 1 => \A s \in streams : inputs[s] # <<>> => Yielded(s)

====
